---- MODULE Spec2Model ----
(***************************************************************************)
(* A model of push.js: one invocation of main() as a sequential state      *)
(* machine.  Every await on api() is a suspension point: the request is    *)
(* appended to the call log when it is issued, and the continuation of     *)
(* main() after the await is one action taking the response as its input.  *)
(* The remote (branch ref, base ref, file contents) and the local working  *)
(* tree are part of the state.                                             *)
(***************************************************************************)
EXTENDS Integers, Sequences, FiniteSets, TLC

\* ---------------------------------------------------------------- bounds
MaxFiles == 2
MaxArgLen == 4

\* ------------------------------------------------------------- constants
Null == "null"          \* a falsy value: undefined, null or ""
NoSha == "nosha"        \* a response or a request body without a sha field

Paths == {"a.txt", "b.txt", "missing.txt", "docs"}

\* what fs.existsSync / fs.statSync report for a path of the working tree
LocalKind(p) ==
  CASE p = "a.txt" -> "file"
    [] p = "b.txt" -> "file"
    [] p = "docs" -> "dir"
    [] OTHER -> "missing"

\* the blob hash the remote computes for the local content of a file
LocalHash(p) == IF p = "a.txt" THEN "blobA" ELSE "blobB"

FileLists == UNION {[1..n -> Paths] : n \in 0..MaxFiles}

VARIABLES
  argv,         \* process.argv after --files: <<>> or one string (of characters)
  options,      \* parseArgs(): help, token, repo, create, dryRun
  gitRepo,      \* getGitRepo(): owner/repo parsed from the origin URL, or null
  fetchOK,      \* whether createFetcher() can import node-fetch
  files,        \* options.files || getTrackedFiles()
  pc,           \* position of main(): the await it is suspended at
  exitCode,     \* -1 while running, else the process exit code
  refResult, mainRef, createResult, existing, result,
  idx,          \* index in files of the file of the current iteration
  success, failed, skipped,
  branchExists, \* remote: refs/heads/<branch> exists
  mainSha,      \* remote: commit of refs/heads/main, NoSha if there is none
  remoteSha,    \* remote: blob sha of each path on the branch, NoSha if none
  calls,        \* history: every request issued, with its response
  outcome       \* history: the outcome recorded for each file processed

vars == <<argv, options, gitRepo, fetchOK, files, pc, exitCode, refResult, mainRef,
          createResult, existing, result, idx, success, failed, skipped,
          branchExists, mainSha, remoteSha, calls, outcome>>

config == <<argv, options, gitRepo, fetchOK, files>>
locals == <<refResult, mainRef, createResult, existing, result>>
counters == <<success, failed, skipped>>
remote == <<branchExists, mainSha, remoteSha>>

\* the refs named in the URLs and bodies: `heads/${branch}` and `heads/main`
TargetRef == "refs/heads/<branch>"
BaseRef == "refs/heads/main"

\* ---------------------------------------------------------------- helpers
\* a response of api(): st is "returned" or "threw"; message/sha/confirm are
\* the fields the code inspects (confirm: .ref of a create, .content of a PUT)
Resp(st, message, sha, confirm) ==
  [st |-> st, message |-> message, sha |-> sha, confirm |-> confirm]

Pending == Resp("pending", Null, NoSha, FALSE)
Threw == Resp("threw", Null, NoSha, FALSE)
ErrorBody == Resp("returned", "Bad credentials", NoSha, FALSE)
NotFoundBody == Resp("returned", "Not Found", NoSha, FALSE)

Call(kind, path, sha, i) ==
  [kind |-> kind, path |-> path, sha |-> sha, idx |-> i, resp |-> Pending]

Issue(kind, path, sha, i) == calls' = Append(calls, Call(kind, path, sha, i))

\* the response of the outstanding request (the last one issued) arrives
Answer(r) == calls' = [calls EXCEPT ![Len(calls)].resp = r]

Exit(code) == pc' = "exited" /\ exitCode' = code

\* const repo = options.repo || getGitRepo()
repo == IF options.repo # Null THEN options.repo ELSE gitRepo
token == options.token

\* ------------------------------------------------------------------- Init
Init ==
  /\ argv = <<>>
  /\ options \in [help : BOOLEAN, token : {Null, "ghp"}, repo : {Null, "o/r"},
                  create : BOOLEAN, dryRun : BOOLEAN]
  /\ gitRepo \in {Null, "o/r"}
  /\ fetchOK \in BOOLEAN
  /\ files \in FileLists
  /\ pc = "start"
  /\ exitCode = -1
  /\ refResult = Pending /\ mainRef = Pending /\ createResult = Pending
  /\ existing = Pending /\ result = Pending
  /\ idx = 1
  /\ success = 0 /\ failed = 0 /\ skipped = 0
  /\ branchExists \in BOOLEAN
  /\ mainSha \in {NoSha, "c1"}
  /\ remoteSha \in [Paths -> {NoSha, "old"}]
  /\ \A p \in Paths : LocalKind(p) # "file" => remoteSha[p] = NoSha
  /\ remoteSha["b.txt"] = NoSha
  /\ calls = <<>>
  /\ outcome = <<>>

\* ------------------------------------------------- parseArgs(): --files
\* A string is a sequence of characters; a file list is a sequence of strings.
Chars == {"a", "b", ",", " "}
ArgStrings == UNION {[1..n -> Chars] : n \in 0..MaxArgLen}

\* position of the first comma of str, 0 if there is none
RECURSIVE IndexOfComma(_, _)
IndexOfComma(str, i) ==
  IF i > Len(str) THEN 0
  ELSE IF str[i] = "," THEN i
  ELSE IndexOfComma(str, i + 1)

\* next.split(',')
RECURSIVE Split(_)
Split(str) ==
  LET k == IndexOfComma(str, 1)
  IN  IF k = 0 THEN <<str>>
      ELSE <<SubSeq(str, 1, k - 1)>> \o Split(SubSeq(str, k + 1, Len(str)))

RECURSIVE TrimStart(_)
TrimStart(str) ==
  IF str # <<>> /\ Head(str) = " " THEN TrimStart(Tail(str)) ELSE str

RECURSIVE TrimEnd(_)
TrimEnd(str) ==
  IF str # <<>> /\ str[Len(str)] = " "
    THEN TrimEnd(SubSeq(str, 1, Len(str) - 1)) ELSE str

\* f.trim()
Trim(str) == TrimEnd(TrimStart(str))

\* next.split(',').map(f => f.trim())
FilesOption(next) == [i \in 1..Len(Split(next)) |-> Trim(Split(next)[i])]

\* `next ? ... : null`: next is undefined when --files is the last argument,
\* and the empty string is falsy too
Truthy(args) == Len(args) > 0 /\ args[1] # <<>>

\* getTrackedFiles(), here one tracked file
TrackedFiles == << <<"a">> >>

\* const files = options.files || getTrackedFiles()
ResolveFiles(args) ==
  IF Truthy(args) THEN FilesOption(args[1]) ELSE TrackedFiles

InitParse ==
  /\ argv \in {<<>>} \cup {<<str>> : str \in ArgStrings}
  /\ options = [help |-> FALSE, token |-> "ghp", repo |-> "o/r",
                create |-> TRUE, dryRun |-> FALSE]
  /\ gitRepo = Null
  /\ fetchOK = TRUE
  /\ files = <<>>
  /\ pc = "parseArgs"
  /\ exitCode = -1
  /\ refResult = Pending /\ mainRef = Pending /\ createResult = Pending
  /\ existing = Pending /\ result = Pending
  /\ idx = 1
  /\ success = 0 /\ failed = 0 /\ skipped = 0
  /\ branchExists = FALSE
  /\ mainSha = NoSha
  /\ remoteSha = [p \in Paths |-> NoSha]
  /\ calls = <<>>
  /\ outcome = <<>>

\* case '--files' of parseArgs(), then the resolution of files in main()
ParseFiles ==
  /\ pc = "parseArgs"
  /\ files' = ResolveFiles(argv)
  /\ pc' = "parsed"
  /\ UNCHANGED <<argv, options, gitRepo, fetchOK, exitCode, locals, idx,
                 counters, remote, calls, outcome>>

SpecParse == InitParse /\ [][ParseFiles]_vars

\* ------------------------------------------- main(): resolve and validate
\* StartOutcome with the dry-run exit placed before the validation
StartOutcome_DryRunFirst(o, tok, rp, fs, fok) ==
  IF o.help THEN "help"
  ELSE IF o.dryRun THEN "dryrun"
  ELSE IF tok = Null THEN "notoken"
  ELSE IF rp = Null THEN "norepo"
  ELSE IF Len(fs) = 0 THEN "nofiles"
  ELSE IF ~fok THEN "nofetch"
  ELSE "go"

\* StartOutcome without the process.exit(0) of the dry-run listing
StartOutcome_NoDryRunExit(o, tok, rp, fs, fok) ==
  IF o.help THEN "help"
  ELSE IF tok = Null THEN "notoken"
  ELSE IF rp = Null THEN "norepo"
  ELSE IF Len(fs) = 0 THEN "nofiles"
  ELSE IF ~fok THEN "nofetch"
  ELSE "go"

\* the first exit main() takes before any await, or "go"
StartOutcome(o, tok, rp, fs, fok) ==
  IF o.help THEN "help"
  ELSE IF tok = Null THEN "notoken"
  ELSE IF rp = Null THEN "norepo"
  ELSE IF Len(fs) = 0 THEN "nofiles"
  ELSE IF o.dryRun THEN "dryrun"
  ELSE IF ~fok THEN "nofetch"
  ELSE "go"

Start == StartOutcome(options, token, repo, files, fetchOK)

ShowHelp ==
  /\ pc = "start" /\ Start = "help"
  /\ Exit(0)
  /\ UNCHANGED <<config, locals, idx, counters, remote, calls, outcome>>

MissingToken ==
  /\ pc = "start" /\ Start = "notoken"
  /\ Exit(1)
  /\ UNCHANGED <<config, locals, idx, counters, remote, calls, outcome>>

MissingRepo ==
  /\ pc = "start" /\ Start = "norepo"
  /\ Exit(1)
  /\ UNCHANGED <<config, locals, idx, counters, remote, calls, outcome>>

NoFiles ==
  /\ pc = "start" /\ Start = "nofiles"
  /\ Exit(1)
  /\ UNCHANGED <<config, locals, idx, counters, remote, calls, outcome>>

DryRun ==
  /\ pc = "start" /\ Start = "dryrun"
  /\ Exit(0)
  /\ UNCHANGED <<config, locals, idx, counters, remote, calls, outcome>>

\* createFetcher() rejects: main().catch exits 1
FetcherFails ==
  /\ pc = "start" /\ Start = "nofetch"
  /\ Exit(1)
  /\ UNCHANGED <<config, locals, idx, counters, remote, calls, outcome>>

\* const refResult = await api(`/repos/${repo}/git/refs/heads/${branch}`)
QueryRef ==
  /\ pc = "start" /\ Start = "go"
  /\ Issue("GET_REF", TargetRef, NoSha, 0)
  /\ pc' = "awaitRef"
  /\ UNCHANGED <<config, exitCode, locals, idx, counters, remote, outcome>>

\* ------------------------------------------------ main(): ensure branch
\* what api() can resolve to for GET /git/refs/heads/<branch>: the ref, the
\* 404 body, or another error body (401, 403, rate limit); or it rejects
RefResponses ==
  {IF branchExists THEN Resp("returned", Null, "c0", FALSE) ELSE NotFoundBody,
   ErrorBody, Threw}

\* GET /git/refs/heads/main
MainResponses ==
  {IF mainSha # NoSha THEN Resp("returned", Null, mainSha, FALSE)
                      ELSE NotFoundBody,
   ErrorBody, Threw}

\* NeedsCreate written `if (refResult.message)`: any error body counts
NeedsCreate_AnyMessage(r) == r.message # Null

\* NeedsCreate with the comparison inverted
NeedsCreate_Inverted(r) == r.message # "Not Found"

\* if (refResult.message === 'Not Found')
NeedsCreate(r) == r.message = "Not Found"

\* HasSha without the test: the create-ref is sent whatever the lookup gave
HasSha_Unchecked(r) == TRUE

\* if (!mainRef.object?.sha)
HasSha(r) == r.sha # NoSha

\* CreateSha reading mainRef.sha, which a ref body does not have
CreateSha_TopLevel(m) == NoSha

\* body.sha of POST /git/refs
CreateSha(m) == m.sha

\* api() rejects while ensuring the branch: main().catch exits 1
RefThrows ==
  /\ pc = "awaitRef"
  /\ Threw \in RefResponses
  /\ Answer(Threw)
  /\ Exit(1)
  /\ UNCHANGED <<config, locals, idx, counters, remote, outcome>>

\* 'Not Found' and --no-create: process.exit(1)
BranchNotFound ==
  /\ pc = "awaitRef"
  /\ \E r \in RefResponses :
       /\ r.st = "returned"
       /\ NeedsCreate(r) /\ ~options.create
       /\ Answer(r)
       /\ refResult' = r
  /\ Exit(1)
  /\ UNCHANGED <<config, mainRef, createResult, existing, result, idx,
                 counters, remote, outcome>>

\* 'Not Found' and create: const mainRef = await api(.../refs/heads/main)
LookupBase ==
  /\ pc = "awaitRef"
  /\ \E r \in RefResponses :
       /\ r.st = "returned"
       /\ NeedsCreate(r) /\ options.create
       /\ refResult' = r
       /\ calls' = Append([calls EXCEPT ![Len(calls)].resp = r],
                          Call("GET_MAIN", BaseRef, NoSha, 0))
  /\ pc' = "awaitMain"
  /\ UNCHANGED <<config, exitCode, mainRef, createResult, existing, result,
                 idx, counters, remote, outcome>>

\* any other body: fall through to the upload loop
BranchReady ==
  /\ pc = "awaitRef"
  /\ \E r \in RefResponses :
       /\ r.st = "returned"
       /\ ~NeedsCreate(r)
       /\ Answer(r)
       /\ refResult' = r
  /\ pc' = "loop"
  /\ UNCHANGED <<config, exitCode, mainRef, createResult, existing, result,
                 idx, counters, remote, outcome>>

MainThrows ==
  /\ pc = "awaitMain"
  /\ Threw \in MainResponses
  /\ Answer(Threw)
  /\ Exit(1)
  /\ UNCHANGED <<config, locals, idx, counters, remote, outcome>>

\* no mainRef.object.sha: process.exit(1)
BaseNotFound ==
  /\ pc = "awaitMain"
  /\ \E r \in MainResponses :
       /\ r.st = "returned"
       /\ ~HasSha(r)
       /\ Answer(r)
       /\ mainRef' = r
  /\ Exit(1)
  /\ UNCHANGED <<config, refResult, createResult, existing, result, idx,
                 counters, remote, outcome>>

\* const createResult = await api(.../git/refs, {method: 'POST', ...})
CreateRef ==
  /\ pc = "awaitMain"
  /\ \E r \in MainResponses :
       /\ r.st = "returned"
       /\ HasSha(r)
       /\ mainRef' = r
       /\ calls' = Append([calls EXCEPT ![Len(calls)].resp = r],
                          Call("POST_REF", TargetRef, CreateSha(r), 0))
  /\ pc' = "awaitCreate"
  /\ UNCHANGED <<config, exitCode, refResult, createResult, existing, result,
                 idx, counters, remote, outcome>>

\* POST /git/refs: the remote creates the ref when the sha names a commit and
\* the ref is new, and answers with it; or an error body; or api() rejects
CreateResponses ==
  {ErrorBody, Threw} \cup
  (IF ~branchExists /\ calls[Len(calls)].sha = mainSha
     THEN {Resp("returned", Null, mainSha, TRUE)} ELSE {})

\* if (!createResult.ref)
HasRef(r) == r.confirm

CreateThrows ==
  /\ pc = "awaitCreate"
  /\ Threw \in CreateResponses
  /\ Answer(Threw)
  /\ Exit(1)
  /\ UNCHANGED <<config, locals, idx, counters, remote, outcome>>

\* no createResult.ref: process.exit(1)
CreateRejected ==
  /\ pc = "awaitCreate"
  /\ \E r \in CreateResponses :
       /\ r.st = "returned"
       /\ ~HasRef(r)
       /\ Answer(r)
       /\ createResult' = r
  /\ Exit(1)
  /\ UNCHANGED <<config, refResult, mainRef, existing, result, idx, counters,
                 remote, outcome>>

\* createResult.ref: the branch now exists, go on to the upload loop
BranchCreated ==
  /\ pc = "awaitCreate"
  /\ \E r \in CreateResponses :
       /\ r.st = "returned"
       /\ HasRef(r)
       /\ Answer(r)
       /\ createResult' = r
  /\ branchExists' = TRUE
  /\ pc' = "loop"
  /\ UNCHANGED <<config, exitCode, refResult, mainRef, existing, result, idx,
                 counters, mainSha, remoteSha, outcome>>

\* --------------------------------------------------- main(): upload loop
file == files[idx]

\* fs.existsSync(fullPath)
ExistsSync(p) == LocalKind(p) # "missing"

\* IsDirectory without the directory test
IsDirectory_Never(p) == FALSE

\* fs.statSync(fullPath).isDirectory()
IsDirectory(p) == LocalKind(p) = "dir"

\* GET /contents/<file>?ref=<branch>: the file's metadata, the 404 body,
\* another error body, or api() rejects
GetResponses ==
  {IF branchExists /\ remoteSha[file] # NoSha
     THEN Resp("returned", Null, remoteSha[file], FALSE)
     ELSE NotFoundBody,
   ErrorBody, Threw}

\* ExistingAfterGet with `existing` declared outside the loop and assigned
\* only when the GET found a version
ExistingAfterGet_Stale(prev, r) == IF r.sha # NoSha THEN r ELSE prev

\* const existing = await api(...), a fresh binding in each iteration
ExistingAfterGet(prev, r) == r

\* PutPath with a fixed path in place of the loop variable
PutPath_Fixed(f) == "b.txt"

\* the path in the URL of the PUT: `/repos/${repo}/contents/${file}`
PutPath(f) == f

\* if (existing.sha) body.sha = existing.sha
PutSha(e) == IF e.sha # NoSha THEN e.sha ELSE NoSha

\* PUT /contents/<file>: the remote writes the file when the branch exists and
\* the body's sha is the blob it holds for the path (none for a create), and
\* answers with the content metadata; or an error body; or api() rejects
PutResponses ==
  {ErrorBody, Threw} \cup
  (IF branchExists /\ calls[Len(calls)].sha = remoteSha[calls[Len(calls)].path]
     THEN {Resp("returned", Null, LocalHash(file), TRUE)} ELSE {})

\* the blobs of the branch once the remote has answered r to the PUT
RemoteAfterPut(r) ==
  IF r.confirm
    THEN [remoteSha EXCEPT ![calls[Len(calls)].path] = LocalHash(file)]
    ELSE remoteSha

\* HasContent with the test inverted
HasContent_Negated(r) == ~r.confirm

\* if (result.content)
HasContent(r) == r.confirm

Record(o) == outcome' = Append(outcome, o)

\* Summary with the exit code derived from the failed count
Summary_StrictExit ==
  /\ pc = "loop" /\ idx > Len(files)
  /\ Exit(IF failed > 0 THEN 1 ELSE 0)
  /\ UNCHANGED <<config, locals, idx, counters, remote, calls, outcome>>

\* the for loop is over: print the summary, main() resolves, exit code 0
Summary ==
  /\ pc = "loop" /\ idx > Len(files)
  /\ Exit(0)
  /\ UNCHANGED <<config, locals, idx, counters, remote, calls, outcome>>

\* if (!fs.existsSync(fullPath)) { skipped++; continue; }
SkipMissing ==
  /\ pc = "loop" /\ idx <= Len(files)
  /\ ~ExistsSync(file)
  /\ skipped' = skipped + 1
  /\ idx' = idx + 1
  /\ Record("skipped")
  /\ UNCHANGED <<config, pc, exitCode, locals, success, failed, remote, calls>>

\* SkipDirectory with a bare `continue`: the directory is not counted
SkipDirectory_Uncounted ==
  /\ pc = "loop" /\ idx <= Len(files)
  /\ ExistsSync(file) /\ IsDirectory(file)
  /\ idx' = idx + 1
  /\ Record("skipped")
  /\ UNCHANGED <<config, pc, exitCode, locals, counters, remote, calls>>

\* if (stat.isDirectory()) { skipped++; continue; }
SkipDirectory ==
  /\ pc = "loop" /\ idx <= Len(files)
  /\ ExistsSync(file) /\ IsDirectory(file)
  /\ skipped' = skipped + 1
  /\ idx' = idx + 1
  /\ Record("skipped")
  /\ UNCHANGED <<config, pc, exitCode, locals, success, failed, remote, calls>>

\* fs.readFileSync throws inside the try: catch (err) { failed++; }
ReadFails ==
  /\ pc = "loop" /\ idx <= Len(files)
  /\ ExistsSync(file) /\ ~IsDirectory(file)
  /\ failed' = failed + 1
  /\ idx' = idx + 1
  /\ Record("failed")
  /\ UNCHANGED <<config, pc, exitCode, locals, success, skipped, remote, calls>>

\* const existing = await api(`/repos/${repo}/contents/${file}?ref=${branch}`)
CheckRemote ==
  /\ pc = "loop" /\ idx <= Len(files)
  /\ ExistsSync(file) /\ ~IsDirectory(file)
  /\ Issue("GET_CONTENT", file, NoSha, idx)
  /\ pc' = "awaitGet"
  /\ UNCHANGED <<config, exitCode, locals, idx, counters, remote, outcome>>

\* GetThrows with the GET outside the try: the rejection reaches main().catch
GetThrows_Abort ==
  /\ pc = "awaitGet"
  /\ Threw \in GetResponses
  /\ Answer(Threw)
  /\ Exit(1)
  /\ UNCHANGED <<config, locals, idx, counters, remote, outcome>>

\* the GET rejects: catch (err) { failed++; }, on to the next file
GetThrows ==
  /\ pc = "awaitGet"
  /\ Threw \in GetResponses
  /\ Answer(Threw)
  /\ failed' = failed + 1
  /\ idx' = idx + 1
  /\ Record("failed")
  /\ pc' = "loop"
  /\ UNCHANGED <<config, exitCode, locals, success, skipped, remote>>

\* PutFile with the await on the GET missing: `existing` is a promise, the
\* PUT is sent without a sha while the GET is still outstanding
PutFile_NoAwait ==
  /\ pc = "awaitGet"
  /\ Issue("PUT_CONTENT", PutPath(file), NoSha, idx)
  /\ pc' = "awaitPut"
  /\ UNCHANGED <<config, exitCode, locals, idx, counters, remote, outcome>>

\* PutFile with the GET in a try of its own: a rejected GET is taken as
\* "no existing version" and the PUT is sent as a create
PutFile_GetErrorIgnored ==
  /\ pc = "awaitGet"
  /\ \E r \in GetResponses :
       /\ existing' = ExistingAfterGet(existing, r)
       /\ calls' = Append([calls EXCEPT ![Len(calls)].resp = r],
                          Call("PUT_CONTENT", PutPath(file), PutSha(existing'), idx))
  /\ pc' = "awaitPut"
  /\ UNCHANGED <<config, exitCode, refResult, mainRef, createResult, result,
                 idx, counters, remote, outcome>>

\* const result = await api(`/repos/${repo}/contents/${file}`, {method: 'PUT'})
PutFile ==
  /\ pc = "awaitGet"
  /\ \E r \in GetResponses :
       /\ r.st = "returned"
       /\ existing' = ExistingAfterGet(existing, r)
       /\ calls' = Append([calls EXCEPT ![Len(calls)].resp = r],
                          Call("PUT_CONTENT", PutPath(file), PutSha(existing'), idx))
  /\ pc' = "awaitPut"
  /\ UNCHANGED <<config, exitCode, refResult, mainRef, createResult, result,
                 idx, counters, remote, outcome>>

\* the PUT rejects: catch (err) { failed++; }, on to the next file
PutThrows ==
  /\ pc = "awaitPut"
  /\ Threw \in PutResponses
  /\ Answer(Threw)
  /\ failed' = failed + 1
  /\ idx' = idx + 1
  /\ Record("failed")
  /\ pc' = "loop"
  /\ UNCHANGED <<config, exitCode, locals, success, skipped, remote>>

\* PutFailed with one retry of a PUT that was answered without content
PutFailed_RetryOnce ==
  /\ pc = "awaitPut"
  /\ \E r \in PutResponses :
       /\ r.st = "returned"
       /\ ~HasContent(r)
       /\ result' = r
       /\ remoteSha' = RemoteAfterPut(r)
       /\ IF Cardinality({i \in 1..Len(calls) : calls[i].kind = "PUT_CONTENT"
                                               /\ calls[i].idx = idx}) = 1
            THEN /\ calls' = Append([calls EXCEPT ![Len(calls)].resp = r],
                                    Call("PUT_CONTENT", PutPath(file),
                                         calls[Len(calls)].sha, idx))
                 /\ UNCHANGED <<failed, idx, outcome, pc>>
            ELSE /\ Answer(r)
                 /\ failed' = failed + 1
                 /\ idx' = idx + 1
                 /\ Record("failed")
                 /\ pc' = "loop"
  /\ UNCHANGED <<config, exitCode, refResult, mainRef, createResult, existing,
                 success, skipped, branchExists, mainSha>>

\* the response has no content: failed++, on to the next file
PutFailed ==
  /\ pc = "awaitPut"
  /\ \E r \in PutResponses :
       /\ r.st = "returned"
       /\ ~HasContent(r)
       /\ Answer(r)
       /\ result' = r
       /\ remoteSha' = RemoteAfterPut(r)
  /\ failed' = failed + 1
  /\ idx' = idx + 1
  /\ Record("failed")
  /\ pc' = "loop"
  /\ UNCHANGED <<config, exitCode, refResult, mainRef, createResult, existing,
                 success, skipped, branchExists, mainSha>>

\* the response has content: success++, on to the next file
Uploaded ==
  /\ pc = "awaitPut"
  /\ \E r \in PutResponses :
       /\ r.st = "returned"
       /\ HasContent(r)
       /\ Answer(r)
       /\ result' = r
       /\ remoteSha' = RemoteAfterPut(r)
  /\ success' = success + 1
  /\ idx' = idx + 1
  /\ Record("uploaded")
  /\ pc' = "loop"
  /\ UNCHANGED <<config, exitCode, refResult, mainRef, createResult, existing,
                 failed, skipped, branchExists, mainSha>>

Next ==
  \/ ShowHelp \/ MissingToken \/ MissingRepo \/ NoFiles \/ DryRun
  \/ FetcherFails \/ QueryRef
  \/ RefThrows \/ BranchNotFound \/ LookupBase \/ BranchReady
  \/ MainThrows \/ BaseNotFound \/ CreateRef
  \/ CreateThrows \/ CreateRejected \/ BranchCreated
  \/ Summary \/ SkipMissing \/ SkipDirectory \/ ReadFails \/ CheckRemote
  \/ GetThrows \/ PutFile
  \/ PutThrows \/ PutFailed \/ Uploaded

Spec == Init /\ [][Next]_vars

\* every suspended call settles and main() takes its next step
FairSpec == Spec /\ WF_vars(Next)

\* ------------------------------------------------------------ second run
\* The tool is invoked again with the same configuration after a run that
\* created the branch has exited or was stopped at any later point.  main()
\* starts afresh against the remote as the first run left it; a request that
\* was outstanding is dropped.  The log of the second run starts with a "RUN"
\* mark that carries the first run's create-ref response.
Rerun ==
  /\ createResult.confirm
  /\ \A i \in 1..Len(calls) : calls[i].kind # "RUN"
  /\ calls' = <<[Call("RUN", Null, NoSha, 0) EXCEPT !.resp = createResult]>>
  /\ pc' = "start"
  /\ exitCode' = -1
  /\ refResult' = Pending /\ mainRef' = Pending /\ createResult' = Pending
  /\ existing' = Pending /\ result' = Pending
  /\ idx' = 1
  /\ success' = 0 /\ failed' = 0 /\ skipped' = 0
  /\ outcome' = <<>>
  /\ UNCHANGED <<config, remote>>

NextRetry == Next \/ Rerun

SpecRetry == Init /\ [][NextRetry]_vars

\* ----------------------------------------------------------------- claims
CallsOf(K) == {i \in 1..Len(calls) : calls[i].kind \in K}
ContentKinds == {"GET_CONTENT", "PUT_CONTENT"}
Exited == pc = "exited"
Unresolved == token = Null \/ repo = Null
last == Len(calls)

\* C1 (as stated): whenever the token or the repository cannot be resolved,
\* the run issues no network call and its exit code is 1, whatever the other
\* options are.
C1_AsStated ==
  Unresolved => calls = <<>> /\ (Exited => exitCode = 1)

\* C1 (amended): whenever the token or the repository cannot be resolved, the
\* run never leaves the validation, issues no network call, and exits with
\* code 1, except with --help where it exits with code 0.
C1_NoCredentialExits ==
  Unresolved =>
    /\ calls = <<>>
    /\ pc \in {"start", "exited"}
    /\ Exited => exitCode = (IF options.help THEN 0 ELSE 1)

C1_Witness ==
  /\ token = Null /\ options.dryRun /\ ~options.help /\ Len(files) > 0
  /\ Exited /\ exitCode = 1

\* C2 (as stated): a run with --dry-run and a non-empty file set issues no
\* network call and its exit code is 0.
C2_AsStated ==
  (options.dryRun /\ Len(files) > 0) =>
    calls = <<>> /\ (Exited => exitCode = 0)

\* C2 (amended): a run with --dry-run issues no network call at all; with a
\* non-empty file set and a resolvable token and repository its exit code
\* is 0.
C2_DryRunNoNetwork ==
  options.dryRun =>
    /\ calls = <<>>
    /\ pc \in {"start", "exited"}
    /\ (Exited /\ Len(files) > 0 /\ ~Unresolved) => exitCode = 0

C2_Witness ==
  /\ options.dryRun /\ ~options.help /\ ~Unresolved /\ Len(files) > 0
  /\ Exited /\ exitCode = 0

\* C3: once the ref query has answered with the ref of the target branch, no
\* base-branch lookup and no create-ref is ever issued; the run is in the
\* upload phase (or has finished it), every later call being a content call.
C3_PresentSkipsCreate ==
  (refResult.st = "returned" /\ refResult.sha # NoSha) =>
    /\ CallsOf({"GET_MAIN", "POST_REF"}) = {}
    /\ CallsOf({"GET_REF"}) = {1}
    /\ pc \in {"loop", "awaitGet", "awaitPut", "exited"}
    /\ Exited => exitCode = 0 /\ Len(outcome) = Len(files)

C3_Witness ==
  /\ refResult.st = "returned" /\ refResult.sha # NoSha
  /\ pc = "awaitPut" /\ idx = 2

\* C4: in a run that has queried the remote, where the target branch is absent
\* on the remote and creation is disabled, no create-ref and no content GET or
\* PUT is issued, and the exit code is 1.
C4_AbsentNoCreateFails ==
  (calls # <<>> /\ ~branchExists /\ ~options.create) =>
    /\ CallsOf({"POST_REF"} \cup ContentKinds) = {}
    /\ Exited => exitCode = 1

\* C5 (as stated): when the ref query answered 'Not Found' and creation is
\* enabled, the finished run has made exactly one create-ref call, with the
\* sha returned by the base-branch lookup.
C5_AsStated ==
  (refResult.message = "Not Found" /\ options.create /\ Exited) =>
    /\ Cardinality(CallsOf({"POST_REF"})) = 1
    /\ \A i \in CallsOf({"POST_REF"}) : calls[i].sha = calls[i - 1].resp.sha

\* C5 (amended): a run makes at most one create-ref call, and makes it only
\* after the ref query answered 'Not Found' with creation enabled and the
\* base-branch lookup of the same run returned a commit sha; its sha is that
\* sha, the current commit of main.  Once the lookup has returned a sha in
\* that situation, the call has been made.
C5_CreateFromBase ==
  /\ Cardinality(CallsOf({"POST_REF"})) <= 1
  /\ \A i \in CallsOf({"POST_REF"}) :
       /\ i = 3
       /\ calls[1].kind = "GET_REF" /\ calls[1].resp.message = "Not Found"
       /\ options.create
       /\ calls[2].kind = "GET_MAIN" /\ calls[2].resp.st = "returned"
       /\ calls[i].sha # NoSha
       /\ calls[i].sha = calls[2].resp.sha
       /\ calls[i].sha = mainSha
  /\ (refResult.message = "Not Found" /\ options.create
        /\ mainRef.st = "returned" /\ mainRef.sha # NoSha) =>
       Cardinality(CallsOf({"POST_REF"})) = 1

C5_Witness ==
  /\ CallsOf({"POST_REF"}) = {3}
  /\ createResult.confirm /\ branchExists /\ pc = "loop"

\* C6: whenever a content GET or PUT has been issued, the target branch
\* exists on the remote.
C6_BranchExistsBeforeUpload ==
  CallsOf(ContentKinds) # {} => branchExists

\* C7: when the content GET of a local file reported no existing version, the
\* outstanding PUT carries no sha, and a PUT response with content metadata
\* adds one to the uploaded counter and leaves failed and skipped unchanged.
C7_CreateCountedUploaded ==
  [][(pc = "awaitPut" /\ calls[last - 1].resp.sha = NoSha) =>
       /\ calls[last].kind = "PUT_CONTENT"
       /\ calls[last].path = file /\ LocalKind(file) = "file"
       /\ calls[last].sha = NoSha
       /\ calls'[last].resp.confirm =>
            /\ success' = success + 1
            /\ failed' = failed /\ skipped' = skipped
            /\ outcome' = Append(outcome, "uploaded")]_vars

C7_Witness ==
  /\ pc = "loop" /\ last >= 2
  /\ calls[last].kind = "PUT_CONTENT" /\ calls[last].sha = NoSha
  /\ calls[last - 1].resp = NotFoundBody
  /\ calls[last].resp.confirm
  /\ success = 1 /\ failed = 0 /\ skipped = 0

\* C8: every PUT follows directly the content GET of the same file in the same
\* iteration, that GET has returned, and the PUT's sha field is the sha of
\* that GET's response: present exactly when the response has one.
C8_PutCarriesFetchedSha ==
  \A i \in CallsOf({"PUT_CONTENT"}) :
    /\ i > 1
    /\ calls[i - 1].kind = "GET_CONTENT"
    /\ calls[i - 1].idx = calls[i].idx
    /\ calls[i - 1].path = calls[i].path
    /\ calls[i - 1].resp.st = "returned"
    /\ calls[i].sha = calls[i - 1].resp.sha

C8_Witness ==
  /\ Cardinality(CallsOf({"PUT_CONTENT"})) = 2
  /\ \E i, j \in CallsOf({"PUT_CONTENT"}) :
       /\ i < j
       /\ calls[i].sha = "old"
       /\ calls[j].sha = NoSha

\* C9: a step in which the PUT response has no content, or the content GET or
\* the PUT raises, adds one to failed only, records Failed for the file, issues
\* no request and moves on to the next file; no file gets a second GET or PUT;
\* a run that entered the loop ends only with every file recorded, exit code 0.
C9_FailureStep ==
  (/\ pc \in {"awaitGet", "awaitPut"}
   /\ calls'[last].resp.st # "pending"
   /\ \/ calls'[last].resp.st = "threw"
      \/ calls[last].kind = "PUT_CONTENT" /\ ~calls'[last].resp.confirm)
  =>
  (/\ failed' = failed + 1 /\ success' = success /\ skipped' = skipped
   /\ outcome' = Append(outcome, "failed")
   /\ Len(calls') = Len(calls)
   /\ idx' = idx + 1 /\ pc' = "loop" /\ exitCode' = -1)

C9_Processed ==
  /\ \A i, j \in CallsOf(ContentKinds) :
       (calls[i].kind = calls[j].kind /\ calls[i].idx = calls[j].idx) => i = j
  /\ Len(outcome) = idx - 1
  /\ failed = Cardinality({i \in 1..Len(outcome) : outcome[i] = "failed"})
  /\ (pc \in {"loop", "awaitGet", "awaitPut"}) => exitCode = -1
  /\ (Exited /\ CallsOf(ContentKinds) # {}) =>
       exitCode = 0 /\ Len(outcome) = Len(files)

C9_FailureNeverAborts == [][C9_FailureStep]_vars /\ []C9_Processed

C9_Witness ==
  /\ Exited /\ exitCode = 0 /\ Len(files) = 2 /\ Len(outcome) = 2
  /\ outcome[1] = "failed" /\ outcome[2] = "uploaded"
  /\ calls[last - 2].resp.st = "threw"

\* C10: a step of the loop at a path that is missing on disk or is a directory
\* adds one to skipped only, issues no request and moves on to the next file;
\* no content GET or PUT is ever issued for such a path.
C10_SkipStep ==
  (pc = "loop" /\ idx <= Len(files) /\ LocalKind(file) \in {"missing", "dir"})
  =>
  (/\ skipped' = skipped + 1 /\ success' = success /\ failed' = failed
   /\ outcome' = Append(outcome, "skipped")
   /\ calls' = calls
   /\ idx' = idx + 1 /\ pc' = "loop" /\ exitCode' = -1)

C10_MissingSkipped ==
  /\ [][C10_SkipStep]_vars
  /\ [](\A i \in CallsOf(ContentKinds) : LocalKind(calls[i].path) = "file")

C10_Witness ==
  /\ Len(files) = 2 /\ files[1] = "docs" /\ files[2] = "missing.txt"
  /\ Exited /\ exitCode = 0
  /\ skipped = 2 /\ success = 0 /\ failed = 0
  /\ last = 1 /\ calls[last].kind = "GET_REF"

\* the run went through the loop to the summary line
SummaryReached == Exited /\ exitCode = 0 /\ calls # <<>>
Count(o) == Cardinality({i \in 1..Len(outcome) : outcome[i] = o})

\* C11: the three counters always add up to the number of files processed so
\* far, each counter being the number of files with that outcome; uploaded is
\* the number of PUT responses with content metadata; at the summary the sum
\* is the number of files; for [a.txt, missing.txt] with a.txt uploaded as a
\* create the summary has 1 uploaded, 0 failed, 1 skipped.
C11_CountersPartition ==
  /\ success + failed + skipped = Len(outcome)
  /\ Len(outcome) = idx - 1
  /\ success = Count("uploaded")
  /\ failed = Count("failed")
  /\ skipped = Count("skipped")
  /\ success = Cardinality({i \in CallsOf({"PUT_CONTENT"}) :
                              calls[i].resp.confirm})
  /\ SummaryReached => success + failed + skipped = Len(files)
  /\ (/\ SummaryReached
      /\ files = <<"a.txt", "missing.txt">>
      /\ \E i \in CallsOf({"PUT_CONTENT"}) :
           calls[i].sha = NoSha /\ calls[i].resp.confirm)
     => success = 1 /\ failed = 0 /\ skipped = 1

C11_Witness ==
  /\ SummaryReached
  /\ files = <<"a.txt", "missing.txt">>
  /\ calls[last].kind = "PUT_CONTENT" /\ calls[last].sha = NoSha
  /\ calls[last - 1].resp = NotFoundBody
  /\ success = 1 /\ failed = 0 /\ skipped = 1

\* C12: a run ends with exit code 1 only from the validation or the
\* branch-ensure phase, before any file has been processed; a run that has
\* entered the upload loop ends with exit code 0 whatever the failed count.
C12_ExitStep ==
  /\ (exitCode' = 1 /\ exitCode # 1) =>
       /\ pc \in {"start", "awaitRef", "awaitMain", "awaitCreate"}
       /\ outcome = <<>> /\ CallsOf(ContentKinds) = {}
  /\ (pc \in {"loop", "awaitGet", "awaitPut"} /\ pc' = "exited") =>
       exitCode' = 0 /\ idx > Len(files)

C12_FailuresKeepExitCode ==
  /\ [][C12_ExitStep]_vars
  /\ []((Exited /\ failed > 0) => exitCode = 0)

C12_Witness ==
  /\ Exited /\ exitCode = 0 /\ failed = 2 /\ success = 0 /\ skipped = 0

\* C13: once the base-branch lookup has returned a body without a commit sha
\* the run has exited with code 1 and no create-ref was issued; once the
\* create-ref has been answered without a ref the run has exited with code 1;
\* in both cases no content GET or PUT is ever issued.
C13_CreateFailuresFatal ==
  /\ (mainRef.st = "returned" /\ mainRef.sha = NoSha) =>
       /\ Exited /\ exitCode = 1
       /\ CallsOf({"POST_REF"} \cup ContentKinds) = {}
  /\ (createResult.st = "returned" /\ ~createResult.confirm) =>
       /\ Exited /\ exitCode = 1
       /\ CallsOf(ContentKinds) = {}
       /\ calls[last].kind = "POST_REF"

C13_Witness ==
  /\ createResult = ErrorBody
  /\ mainRef.sha = "c1"
  /\ Exited /\ exitCode = 1 /\ last = 3

\* C14: in a second run with the same configuration, started after a first
\* run created the target branch, the ref query never answers 'Not Found', no
\* base-branch lookup and no create-ref is issued, a ref answer leads straight
\* to the upload loop, and the remote refs stay as the first run left them.
SecondRun == CallsOf({"RUN"})
FirstRunCreated(m) == m = 1 /\ calls[m].resp.confirm

C14_SecondRunState ==
  \A m \in SecondRun : FirstRunCreated(m) =>
    /\ branchExists
    /\ \A j \in (m + 1)..Len(calls) :
         /\ calls[j].kind \notin {"GET_MAIN", "POST_REF"}
         /\ calls[j].kind = "GET_REF" =>
              j = m + 1 /\ calls[j].resp.message # "Not Found"
    /\ (refResult.st = "returned" /\ refResult.message = Null) =>
         /\ refResult.sha # NoSha
         /\ pc \in {"loop", "awaitGet", "awaitPut", "exited"}

C14_RetryIdempotent ==
  /\ []C14_SecondRunState
  /\ [][SecondRun # {} => UNCHANGED <<branchExists, mainSha>>]_vars

C14_Witness ==
  /\ SecondRun # {}
  /\ refResult.st = "returned" /\ refResult.sha # NoSha
  /\ pc = "awaitPut"

\* C15: at most one request is outstanding, and it is the last one issued;
\* content requests are issued in the order of the file list, each for the
\* path at its index; when a request for a file is outstanding the outcomes of
\* exactly the earlier files are recorded, and a request is never issued for a
\* file before all earlier files have their outcome.
C15_Sequential ==
  /\ \A i \in 1..Len(calls) : calls[i].resp.st = "pending" => i = last
  /\ \A i, j \in CallsOf(ContentKinds) : i < j => calls[i].idx <= calls[j].idx
  /\ \A i \in CallsOf(ContentKinds) :
       /\ calls[i].idx \in 1..Len(files)
       /\ calls[i].path = files[calls[i].idx]
       /\ Len(outcome) >= calls[i].idx - 1
       /\ calls[i].resp.st = "pending" =>
            Len(outcome) = calls[i].idx - 1 /\ idx = calls[i].idx
  /\ (pc \in {"awaitRef", "awaitMain", "awaitCreate", "awaitGet", "awaitPut"})
       <=> (calls # <<>> /\ calls[last].resp.st = "pending")

C15_Witness ==
  /\ pc = "awaitGet" /\ idx = 2 /\ Len(outcome) = 1
  /\ Cardinality(CallsOf(ContentKinds)) = 3
  /\ calls[last].resp.st = "pending"

\* C17: every PUT comes right after a GET for the same path in the same
\* iteration that has returned a body; a file whose GET raised gets no PUT;
\* a file gets at most one GET and one PUT, and a skipped file gets neither.
C17_GetBeforePut ==
  /\ \A i \in CallsOf({"PUT_CONTENT"}) :
       \E j \in CallsOf({"GET_CONTENT"}) :
         /\ j = i - 1
         /\ calls[j].idx = calls[i].idx /\ calls[j].path = calls[i].path
         /\ calls[j].resp.st = "returned"
  /\ \A j \in CallsOf({"GET_CONTENT"}) :
       calls[j].resp.st = "threw" =>
         /\ \A i \in CallsOf({"PUT_CONTENT"}) : calls[i].idx # calls[j].idx
         /\ outcome[calls[j].idx] = "failed"
  /\ \A n \in 1..Len(files) :
       /\ Cardinality({i \in CallsOf({"GET_CONTENT"}) : calls[i].idx = n}) <= 1
       /\ Cardinality({i \in CallsOf({"PUT_CONTENT"}) : calls[i].idx = n}) <= 1
  /\ \A n \in 1..Len(outcome) :
       outcome[n] = "skipped" =>
         \A i \in CallsOf(ContentKinds) : calls[i].idx # n

C17_Witness ==
  /\ Len(outcome) = 2 /\ outcome[1] = "failed" /\ outcome[2] = "failed"
  /\ last = 4
  /\ calls[2].kind = "GET_CONTENT" /\ calls[2].resp.st = "threw"
  /\ calls[3].kind = "GET_CONTENT" /\ calls[4].kind = "PUT_CONTENT"

\* C16: with an override string given to --files, the resolved file set is
\* the override's comma-separated entries in order, each trimmed, without any
\* empty entry.
NonEmpty(str) == str # <<>>

C16_OverrideEntries ==
  (pc = "parsed" /\ Len(argv) = 1 /\ argv[1] # <<>>) =>
    /\ \A i \in 1..Len(files) : files[i] # <<>>
    /\ files = SelectSeq(FilesOption(argv[1]), NonEmpty)

\* C18: every run eventually exits, and at no point has a run issued more than
\* 3 + 2 * (number of files) requests: at most three while ensuring the branch
\* and at most two per file.
C18_TerminatesBounded ==
  /\ <>Exited
  /\ [](/\ Len(calls) <= 3 + 2 * Len(files)
        /\ Cardinality(CallsOf({"GET_REF", "GET_MAIN", "POST_REF"})) <= 3
        /\ \A n \in 1..Len(files) :
             Cardinality({i \in CallsOf(ContentKinds) : calls[i].idx = n}) <= 2
        /\ Exited => exitCode \in {0, 1})

C18_Witness ==
  /\ Exited /\ Len(files) = MaxFiles
  /\ Len(calls) = 3 + 2 * Len(files)

\* C19: the only requests that change the remote are the create-ref for the
\* target branch and PUTs on the target branch at paths of the file set: the
\* ref of main never changes, the target ref is never removed, no blob at a
\* path outside the file set changes, and no blob is ever removed.
FileSet == {files[i] : i \in 1..Len(files)}

C19_FrameStep ==
  /\ mainSha' = mainSha
  /\ branchExists => branchExists'
  /\ branchExists' # branchExists =>
       calls[last].kind = "POST_REF" /\ calls[last].path = TargetRef
  /\ \A p \in Paths :
       /\ p \notin FileSet => remoteSha'[p] = remoteSha[p]
       /\ remoteSha[p] # NoSha => remoteSha'[p] # NoSha
       /\ remoteSha'[p] # remoteSha[p] =>
            calls[last].kind = "PUT_CONTENT" /\ calls[last].path = p

C19_MutatingCalls ==
  \A i \in 1..Len(calls) :
    /\ calls[i].kind \in
         {"GET_REF", "GET_MAIN", "POST_REF", "GET_CONTENT", "PUT_CONTENT"}
    /\ calls[i].kind = "POST_REF" => calls[i].path = TargetRef
    /\ calls[i].kind = "PUT_CONTENT" => calls[i].path \in FileSet

C19_OnlyTargetMutated == [][C19_FrameStep]_vars /\ []C19_MutatingCalls

C19_Witness ==
  /\ Exited /\ files = <<"a.txt">>
  /\ CallsOf({"POST_REF"}) = {3} /\ branchExists
  /\ remoteSha["a.txt"] = "blobA" /\ remoteSha["b.txt"] = NoSha
  /\ mainSha = "c1"
====
